---------------------------- MODULE Spec2Model ----------------------------
(***************************************************************************)
(* A model of src/signal_processing.py: the waveform generators, the noise *)
(* injector with numpy's process-global random generator, the moving       *)
(* average filter (np.convolve, mode='same'), the SNR and statistics       *)
(* functions, and main(), which runs them in sequence.                     *)
(*                                                                         *)
(* Sample values are rationals <<n, d>> in lowest terms with d > 0.  The   *)
(* IEEE special values are written with d = 0: NaN = <<0,0>>,              *)
(* +inf = <<1,0>>, -inf = <<-1,0>>.  Elementwise float additions,          *)
(* subtractions and products round to MantissaBits significant bits        *)
(* (round half to even, unbounded exponent); sums and the convolution's   *)
(* dot products are accumulated exactly, and a mean is rounded once, when  *)
(* it is returned.                                                         *)
(***************************************************************************)
EXTENDS Integers, Sequences, FiniteSets, TLC

VARIABLES
    rng,        \* numpy's process-global RandomState (np.random)
    stdout,     \* number of statistics blocks print() has written
    call,       \* the stage call a client of the module made last
    ret,        \* what that call returned (None when it raised)
    err,        \* the exception the last call / main() raised, or "none"
    pc,         \* position of main()
    config,     \* SIGNAL_CONFIG
    t,          \* main's time array
    clean,      \* main's clean_sine, clean_square, clean_sawtooth
    noisy,      \* main's noisy_sine, noisy_square, noisy_sawtooth
    drawn,      \* the local `noise` of the add_noise call made for each waveform
    filtered,   \* main's filtered_sine, filtered_square, filtered_sawtooth
    snr,        \* main's snr_noisy, snr_filtered
    stats       \* the records main's calculate_statistics calls returned

vars == <<rng, stdout, call, ret, err, pc, config, t, clean, noisy, drawn,
          filtered, snr, stats>>

mainVars == <<pc, config, t, clean, noisy, drawn, filtered, snr, stats>>

(***************************************************************************)
(* Bounds of the model.                                                    *)
(***************************************************************************)
MantissaBits == 3
MaxLen == 3
MaxNoiseLen == 2
MaxSnrLen == 2
MaxWindow == 4
MaxSeed == 1
MaxLevel == 1
MaxRate == 3
MaxDurationHalves == 4
MaxPrints == 2

\* Python's None, unlike every array
None == << <<>> >>

(***************************************************************************)
(* Rational arithmetic.                                                    *)
(***************************************************************************)
Abs(x) == IF x < 0 THEN -x ELSE x

RECURSIVE Gcd(_, _)
Gcd(a, b) == IF b = 0 THEN a ELSE Gcd(b, a % b)

Pow2(n) == 2 ^ n

NaN == <<0, 0>>
PosInf == <<1, 0>>
NegInf == <<-1, 0>>

IsNaN(r) == r = NaN

\* <<n, d>> with d # 0, in lowest terms with a positive denominator
Norm(n, d) ==
    LET g == Gcd(Abs(n), Abs(d))
        s == IF d < 0 THEN -1 ELSE 1
    IN  <<(s * n) \div g, (s * d) \div g>>

Int2R(i) == <<i, 1>>

\* sums are taken over the least common denominator
RAdd(a, b) ==
    LET g == Gcd(a[2], b[2])
    IN  Norm(a[1] * (b[2] \div g) + b[1] * (a[2] \div g), (a[2] \div g) * b[2])
RSub(a, b) ==
    LET g == Gcd(a[2], b[2])
    IN  Norm(a[1] * (b[2] \div g) - b[1] * (a[2] \div g), (a[2] \div g) * b[2])
RMul(a, b) == Norm(a[1] * b[1], a[2] * b[2])
RLt(a, b) == a[1] * b[2] < b[1] * a[2]
RLe(a, b) == a[1] * b[2] <= b[1] * a[2]

\* float division x / y: NaN propagates, 0/0 is NaN, x/0 is +-inf
RDiv(a, b) ==
    IF IsNaN(a) \/ IsNaN(b) THEN NaN
    ELSE IF b[1] = 0
    THEN IF a[1] = 0 THEN NaN ELSE IF a[1] > 0 THEN PosInf ELSE NegInf
    ELSE Norm(a[1] * b[2], a[2] * b[1])

RFloor(a) == a[1] \div a[2]

\* the fractional part x - floor(x), in [0, 1)
RFrac(a) == Norm(a[1] % a[2], a[2])

(***************************************************************************)
(* Rounding to the nearest float with MantissaBits significant bits, ties  *)
(* to even.  RoundMag(n, d, s) rounds the positive value (n/d) * 2^s.      *)
(***************************************************************************)
RECURSIVE RoundMag(_, _, _)
RoundMag(n, d, s) ==
    IF n >= Pow2(MantissaBits) * d THEN RoundMag(n, 2 * d, s + 1)
    ELSE IF n < Pow2(MantissaBits - 1) * d THEN RoundMag(2 * n, d, s - 1)
    ELSE LET q == n \div d
             r == n - q * d
             m == IF 2 * r > d \/ (2 * r = d /\ q % 2 = 1) THEN q + 1 ELSE q
         IN  IF s >= 0 THEN Norm(m * Pow2(s), 1) ELSE Norm(m, Pow2(-s))

Fl(r) ==
    IF r[1] = 0 \/ r[2] = 0 THEN r
    ELSE LET m == RoundMag(Abs(r[1]), r[2], 0)
         IN  IF r[1] < 0 THEN <<-m[1], m[2]>> ELSE m

FAdd(a, b) == Fl(RAdd(a, b))
FSub(a, b) == Fl(RSub(a, b))
FMul(a, b) == Fl(RMul(a, b))

\* elementwise a + b and a - b of two arrays of one length
AddArrays(a, b) == [i \in 1..Len(a) |-> FAdd(a[i], b[i])]
SubArrays(a, b) == [i \in 1..Len(a) |-> FSub(a[i], b[i])]

RECURSIVE SumSeq(_)
SumSeq(s) == IF Len(s) = 0 THEN <<0, 1>> ELSE RAdd(s[1], SumSeq(Tail(s)))

\* elementwise s ** 2
Squares(s) == [i \in 1..Len(s) |-> FMul(s[i], s[i])]

\* np.mean: the mean of an empty array is NaN (a RuntimeWarning, no exception)
Mean(s) == IF Len(s) = 0 THEN NaN ELSE Fl(RDiv(SumSeq(s), Int2R(Len(s))))

RECURSIVE MinSeq(_)
MinSeq(s) ==
    IF Len(s) = 1 THEN s[1]
    ELSE LET m == MinSeq(Tail(s)) IN IF RLt(m, s[1]) THEN m ELSE s[1]

RECURSIVE MaxSeq(_)
MaxSeq(s) ==
    IF Len(s) = 1 THEN s[1]
    ELSE LET m == MaxSeq(Tail(s)) IN IF RLt(s[1], m) THEN m ELSE s[1]

(***************************************************************************)
(* numpy's legacy global generator.  The Mersenne Twister is modelled by a *)
(* full-period congruential generator on 0..3; the Gaussian sampler keeps  *)
(* numpy's structure: each transformation of the bit stream yields two     *)
(* normal deviates, one returned and one cached (has_gauss, gauss) for the *)
(* next call.                                                              *)
(***************************************************************************)
RngStates == [pos : 0..3, has_gauss : BOOLEAN, gauss : -2..2]

StdNormalA == <<1, -1, 2, 0>>
StdNormalB == <<-1, 0, 1, -2>>

\* faulty variant of NpRandomSeed: the generator is not reseeded
NpRandomSeedSkipped(g, seed) == g

\* faulty variant of NpRandomSeed: reseeding leaves the cached deviate
NpRandomSeedKeepsCache(g, seed) ==
    [pos |-> (5 * seed + 3) % 4, has_gauss |-> g.has_gauss, gauss |-> g.gauss]

\* np.random.seed(seed) with the global state g: the state is rebuilt from
\* the seed alone and the cached deviate is dropped
NpRandomSeed(g, seed) ==
    [pos |-> (5 * seed + 3) % 4, has_gauss |-> FALSE, gauss |-> 0]

\* one standard normal deviate: [value, rng]
LegacyGauss(g) ==
    IF g.has_gauss
    THEN [value |-> g.gauss,
          rng |-> [pos |-> g.pos, has_gauss |-> FALSE, gauss |-> 0]]
    ELSE LET p == (5 * g.pos + 3) % 4
         IN  [value |-> StdNormalA[p + 1],
              rng |-> [pos |-> p, has_gauss |-> TRUE, gauss |-> StdNormalB[p + 1]]]

\* faulty variant of DrawNormal: standard deviates, the scale ignored
RECURSIVE DrawNormalUnscaled(_, _, _)
DrawNormalUnscaled(g, scale, n) ==
    IF n = 0 THEN [noise |-> <<>>, rng |-> g]
    ELSE LET d == LegacyGauss(g)
             rest == DrawNormalUnscaled(d.rng, scale, n - 1)
         IN  [noise |-> <<Int2R(d.value)>> \o rest.noise, rng |-> rest.rng]

\* n deviates loc + scale * gauss with loc = 0: [noise, rng]
RECURSIVE DrawNormal(_, _, _)
DrawNormal(g, scale, n) ==
    IF n = 0 THEN [noise |-> <<>>, rng |-> g]
    ELSE LET d == LegacyGauss(g)
             rest == DrawNormal(d.rng, scale, n - 1)
         IN  [noise |-> <<FAdd(Int2R(0), FMul(scale, Int2R(d.value)))>> \o rest.noise,
              rng |-> rest.rng]

\* np.random.normal(0, scale, n): a negative scale raises ValueError before
\* anything is drawn
NpRandomNormal(g, scale, n) ==
    IF RLt(scale, Int2R(0))
    THEN [err |-> "ValueError", noise |-> None, rng |-> g]
    ELSE LET d == DrawNormal(g, scale, n)
         IN  [err |-> "none", noise |-> d.noise, rng |-> d.rng]

(***************************************************************************)
(* The stages.  Each returns what the call returns (ret), the exception it *)
(* raises (err) and, where the stage touches it, the global state it       *)
(* leaves behind.                                                          *)
(***************************************************************************)
DefaultSeed == 42

\* sin at the eighths of a period, and the sign of each
SinTable == << <<0, 1>>, <<7071, 10000>>, <<1, 1>>, <<7071, 10000>>,
               <<0, 1>>, <<-7071, 10000>>, <<-1, 1>>, <<-7071, 10000>> >>

Sign(r) == IF r[1] > 0 THEN Int2R(1) ELSE IF r[1] < 0 THEN Int2R(-1) ELSE Int2R(0)

\* (2 pi f t mod 2 pi) / (2 pi), in [0, 1)
PhaseFraction(ti, frequency) == RFrac(RMul(frequency, ti))

\* sin(2 pi f t), the argument rounded down to the table's grid
SinOf(ti, frequency) == Fl(SinTable[RFloor(RMul(Int2R(8), PhaseFraction(ti, frequency))) + 1])

generate_sine_wave(ts, frequency, amplitude) ==
    [i \in 1..Len(ts) |-> FMul(amplitude, SinOf(ts[i], frequency))]

generate_square_wave(ts, frequency, amplitude) ==
    [i \in 1..Len(ts) |-> FMul(amplitude, Sign(SinOf(ts[i], frequency)))]

\* phase / pi - 1 = 2 * (phase / 2 pi) - 1
generate_sawtooth_wave(ts, frequency, amplitude) ==
    [i \in 1..Len(ts) |->
        FMul(amplitude,
             FSub(Fl(RMul(Int2R(2), PhaseFraction(ts[i], frequency))), Int2R(1)))]

add_noise(g, signal, noise_level, seed) ==
    LET seeded == NpRandomSeed(g, seed)
        d == NpRandomNormal(seeded, noise_level, Len(signal))
    IN  IF d.err # "none"
        THEN [err |-> d.err, ret |-> None, noise |-> None, rng |-> d.rng]
        ELSE [err |-> "none", ret |-> AddArrays(signal, d.noise),
              noise |-> d.noise, rng |-> d.rng]

\* np.ones(window_size) / window_size: a negative size raises ValueError, the
\* size 0 gives an empty array
Kernel(window_size) == [j \in 1..window_size |-> RDiv(Int2R(1), Int2R(window_size))]

\* entry k (from 1) of the full convolution of a and v
FullConvolution(a, v, k) ==
    SumSeq([j \in 1..Len(a) |->
              IF k + 1 - j >= 1 /\ k + 1 - j <= Len(v)
              THEN RMul(a[j], v[k + 1 - j]) ELSE Int2R(0)])

\* faulty variant of SameOffset: n // 2 entries in
SameOffsetHalfWindow(n) == n \div 2

\* where mode='same' starts in the full convolution: (n - 1) // 2 entries in,
\* n the length of the shorter argument
SameOffset(n) == (n - 1) \div 2

\* the length of a mode='same' result: that of the longer argument
SameLength(n, m) == IF n >= m THEN n ELSE m

\* np.convolve(a, v, mode='same') of two non-empty arrays
ConvolveSame(a, v) ==
    LET short == IF Len(a) <= Len(v) THEN Len(a) ELSE Len(v)
    IN  [i \in 1..SameLength(Len(a), Len(v)) |->
            FullConvolution(a, v, i + SameOffset(short))]

apply_filter(signal, window_size) ==
    IF window_size < 0 THEN [err |-> "ValueError", ret |-> None]
    ELSE IF Len(signal) = 0 \/ window_size = 0 THEN [err |-> "ValueError", ret |-> None]
    ELSE [err |-> "none", ret |-> ConvolveSame(signal, Kernel(window_size))]

\* 10 * log10(x): symbolic for finite x > 0
TenLog10(x) ==
    IF IsNaN(x) THEN [kind |-> "nan", arg |-> NaN]
    ELSE IF x = PosInf THEN [kind |-> "inf", arg |-> NaN]
    ELSE IF x[1] = 0 THEN [kind |-> "-inf", arg |-> NaN]
    ELSE IF x[1] < 0 THEN [kind |-> "nan", arg |-> NaN]
    ELSE [kind |-> "10log10", arg |-> x]

Infinity == [kind |-> "inf", arg |-> NaN]

\* x > 0 on floats: false for NaN
GreaterThanZero(x) == ~IsNaN(x) /\ x[1] > 0

\* faulty variant of NoisePowerPositive: noise_power != 0, true for NaN
NoisePowerNotZero(x) == IsNaN(x) \/ x[1] # 0

\* the test of line 55, noise_power > 0
NoisePowerPositive(x) == GreaterThanZero(x)

calculate_snr(signal, noise) ==
    LET signal_power == Mean(Squares(signal))
        noise_power == Mean(Squares(noise))
    IN  IF NoisePowerPositive(noise_power)
        THEN TenLog10(RDiv(signal_power, noise_power))
        ELSE Infinity

\* np.sqrt, symbolic
Sqrt(x) == [sqrt |-> x]

\* np.std: the square root of the mean squared deviation from the mean
Std(signal) ==
    LET m == Mean(signal)
        dev == [i \in 1..Len(signal) |-> FSub(signal[i], m)]
    IN  Sqrt(Mean(Squares(dev)))

\* faulty variant of calculate_statistics: the minimum and maximum of a
\* zero-size array are NaN, as its mean is
StatisticsOfEmptyAllNaN(signal) ==
    IF Len(signal) = 0
    THEN [err |-> "none", printed |-> 1,
          ret |-> [mean |-> NaN, std |-> Sqrt(NaN), min |-> NaN, max |-> NaN,
                   rms |-> Sqrt(NaN)]]
    ELSE [err |-> "none", printed |-> 1,
          ret |-> [mean |-> Mean(signal), std |-> Std(signal),
                   min |-> MinSeq(signal), max |-> MaxSeq(signal),
                   rms |-> Sqrt(Mean(Squares(signal)))]]

\* np.min and np.max raise ValueError on a zero-size array; np.mean and
\* np.std, evaluated before them, return NaN.  On success the five values are
\* printed.
calculate_statistics(signal) ==
    IF Len(signal) = 0
    THEN [err |-> "ValueError", ret |-> None, printed |-> 0]
    ELSE [err |-> "none", printed |-> 1,
          ret |-> [mean |-> Mean(signal), std |-> Std(signal),
                   min |-> MinSeq(signal), max |-> MaxSeq(signal),
                   rms |-> Sqrt(Mean(Squares(signal)))]]

\* int(sample_rate * duration): truncation, of a positive product the floor
NumSamples(duration, sample_rate) == RFloor(RMul(sample_rate, duration))

\* np.linspace(0, stop, num), endpoint=True: num points with the step
\* stop / (num - 1), the last one set to stop; a single point is the start
Linspace(stop, num) ==
    [i \in 1..num |->
        IF num = 1 THEN Int2R(0)
        ELSE IF i = num THEN stop
        ELSE RMul(Int2R(i - 1), RDiv(stop, Int2R(num - 1)))]

\* a - b with numpy's broadcasting of a one-element array; other shapes that
\* differ raise ValueError
Subtract(a, b) ==
    IF Len(a) = Len(b) THEN [err |-> "none", ret |-> SubArrays(a, b)]
    ELSE IF Len(b) = 1
    THEN [err |-> "none", ret |-> [i \in 1..Len(a) |-> FSub(a[i], b[1])]]
    ELSE IF Len(a) = 1
    THEN [err |-> "none", ret |-> [i \in 1..Len(b) |-> FSub(a[1], b[i])]]
    ELSE [err |-> "ValueError", ret |-> None]

(***************************************************************************)
(* The inputs the model draws.                                             *)
(***************************************************************************)
Arrays(values, maxlen) == UNION {[1..n -> values] : n \in 0..maxlen}

Signals == Arrays({Int2R(-1), Int2R(2)}, MaxLen)

NoiseSignals == Arrays({Int2R(-1), Int2R(8)}, MaxNoiseLen)

SnrSignals == Arrays({Int2R(0), Int2R(2)}, MaxSnrLen)

NoiseLevels == {Int2R(l) : l \in -1..MaxLevel}

Seeds == 0..MaxSeed \cup {DefaultSeed}

Windows == -1..MaxWindow

Amplitudes == {Int2R(1), Int2R(8)}

\* SIGNAL_CONFIG, each parameter drawn from a small set
Configs ==
    [frequency : {Int2R(1), Int2R(2)},
     amplitude : Amplitudes,
     duration : {Norm(h, 2) : h \in 1..MaxDurationHalves},
     sample_rate : {Int2R(r) : r \in 1..MaxRate},
     noise_level : NoiseLevels,
     filter_window : Windows]

NoCall == [fn |-> "none"]

Unset == [sine |-> None, square |-> None, sawtooth |-> None]

\* the generator as the interpreter's start leaves it: seeded from the
\* operating system's entropy, no deviate cached
FreshRngStates == {g \in RngStates : ~g.has_gauss /\ g.gauss = 0}

InitShared ==
    /\ rng \in FreshRngStates
    /\ stdout = 0
    /\ err = "none"
    /\ call = NoCall
    /\ ret = None
    /\ t = None
    /\ clean = Unset
    /\ noisy = Unset
    /\ drawn = Unset
    /\ filtered = Unset
    /\ snr = None
    /\ stats = None

\* the script run: main() is about to start
InitMain ==
    /\ InitShared
    /\ pc = "start"
    /\ config \in Configs

\* the module imported by a client that calls the stages itself
InitApi ==
    /\ InitShared
    /\ pc = "imported"
    /\ config = [frequency |-> Int2R(2), amplitude |-> Int2R(1),
                 duration |-> Int2R(2), sample_rate |-> Int2R(1000),
                 noise_level |-> <<1, 5>>, filter_window |-> 20]

(***************************************************************************)
(* A client's calls of the stages.  `call` names the stage and its         *)
(* arguments, with the global state the call found (before).               *)
(***************************************************************************)
Before == [rng |-> rng, stdout |-> stdout, config |-> config]

TimeArrays == Arrays({<<1, 8>>, <<3, 4>>}, MaxNoiseLen)

CallGenerate ==
    /\ pc = "imported"
    /\ \E ts \in TimeArrays, frequency \in {Int2R(1), Int2R(2)},
          amplitude \in Amplitudes, fn \in {"sine", "square", "sawtooth"} :
          /\ call' = [fn |-> "generate_" \o fn \o "_wave", t |-> ts,
                      frequency |-> frequency, amplitude |-> amplitude,
                      before |-> Before]
          /\ ret' = CASE fn = "sine" -> generate_sine_wave(ts, frequency, amplitude)
                      [] fn = "square" -> generate_square_wave(ts, frequency, amplitude)
                      [] OTHER -> generate_sawtooth_wave(ts, frequency, amplitude)
          /\ err' = "none"
    /\ UNCHANGED <<rng, stdout, mainVars>>

CallAddNoise ==
    /\ pc = "imported"
    /\ \E signal \in NoiseSignals, noise_level \in NoiseLevels, seed \in Seeds :
          LET r == add_noise(rng, signal, noise_level, seed)
          IN  /\ call' = [fn |-> "add_noise", signal |-> signal,
                          noise_level |-> noise_level, seed |-> seed,
                          before |-> Before]
              /\ ret' = r.ret
              /\ err' = r.err
              /\ rng' = r.rng
    /\ UNCHANGED <<stdout, mainVars>>

\* any other user of np.random draws one deviate from the global generator
OtherDraw ==
    /\ pc = "imported"
    /\ call' = [fn |-> "np.random.normal", before |-> Before]
    /\ ret' = LegacyGauss(rng).value
    /\ err' = "none"
    /\ rng' = LegacyGauss(rng).rng
    /\ UNCHANGED <<stdout, mainVars>>

CallApplyFilter ==
    /\ pc = "imported"
    /\ \E signal \in Signals, window_size \in Windows :
          LET r == apply_filter(signal, window_size)
          IN  /\ call' = [fn |-> "apply_filter", signal |-> signal,
                          window_size |-> window_size, before |-> Before]
              /\ ret' = r.ret
              /\ err' = r.err
    /\ UNCHANGED <<rng, stdout, mainVars>>

CallCalculateSnr ==
    /\ pc = "imported"
    /\ \E signal \in SnrSignals, noise \in SnrSignals :
          /\ call' = [fn |-> "calculate_snr", signal |-> signal, noise |-> noise,
                      before |-> Before]
          /\ ret' = calculate_snr(signal, noise)
          /\ err' = "none"
    /\ UNCHANGED <<rng, stdout, mainVars>>

CallCalculateStatistics ==
    /\ pc = "imported"
    /\ stdout < MaxPrints
    /\ \E signal \in Signals :
          LET r == calculate_statistics(signal)
          IN  /\ call' = [fn |-> "calculate_statistics", signal |-> signal,
                          before |-> Before]
              /\ ret' = r.ret
              /\ err' = r.err
              /\ stdout' = stdout + r.printed
    /\ UNCHANGED <<rng, mainVars>>

NextNoise == CallAddNoise \/ OtherDraw

NextFilter == CallApplyFilter

NextMetrics == CallCalculateSnr \/ CallCalculateStatistics

NextApi ==
    \/ CallGenerate
    \/ CallAddNoise
    \/ CallApplyFilter
    \/ CallCalculateSnr
    \/ CallCalculateStatistics

SpecNoise == InitApi /\ [][NextNoise]_vars

SpecFilter == InitApi /\ [][NextFilter]_vars

SpecMetrics == InitApi /\ [][NextMetrics]_vars

SpecApi == InitApi /\ [][NextApi]_vars

(***************************************************************************)
(* main().  The FFT magnitudes (lines 108-116) feed only the plot and are  *)
(* not modelled; of the plot, only the shape check of ax.plot(t, y).       *)
(***************************************************************************)
Abort(e) ==
    /\ pc' = "aborted"
    /\ err' = e

MakeTimeSeries ==
    /\ pc = "start"
    /\ t' = Linspace(config.duration, NumSamples(config.duration, config.sample_rate))
    /\ pc' = "generate"
    /\ UNCHANGED <<rng, stdout, call, ret, err, config, clean, noisy, drawn,
                   filtered, snr, stats>>

GenerateClean ==
    /\ pc = "generate"
    /\ clean' = [sine |-> generate_sine_wave(t, config.frequency, config.amplitude),
                 square |-> generate_square_wave(t, config.frequency, config.amplitude),
                 sawtooth |-> generate_sawtooth_wave(t, config.frequency, config.amplitude)]
    /\ pc' = "noise_sine"
    /\ UNCHANGED <<rng, stdout, call, ret, err, config, t, noisy, drawn,
                   filtered, snr, stats>>

AddNoiseTo(wave, next) ==
    /\ pc = "noise_" \o wave
    /\ LET r == add_noise(rng, clean[wave], config.noise_level, DefaultSeed)
       IN  /\ rng' = r.rng
           /\ IF r.err # "none"
              THEN Abort(r.err) /\ UNCHANGED <<noisy, drawn>>
              ELSE /\ noisy' = [noisy EXCEPT ![wave] = r.ret]
                   /\ drawn' = [drawn EXCEPT ![wave] = r.noise]
                   /\ pc' = next
                   /\ UNCHANGED err
    /\ UNCHANGED <<stdout, call, ret, config, t, clean, filtered, snr, stats>>

AddNoiseSine == AddNoiseTo("sine", "noise_square")

AddNoiseSquare == AddNoiseTo("square", "noise_sawtooth")

AddNoiseSawtooth == AddNoiseTo("sawtooth", "filter_sine")

FilterOf(wave, next) ==
    /\ pc = "filter_" \o wave
    /\ LET r == apply_filter(noisy[wave], config.filter_window)
       IN  IF r.err # "none"
           THEN Abort(r.err) /\ UNCHANGED filtered
           ELSE /\ filtered' = [filtered EXCEPT ![wave] = r.ret]
                /\ pc' = next
                /\ UNCHANGED err
    /\ UNCHANGED <<rng, stdout, call, ret, config, t, clean, noisy, drawn, snr, stats>>

FilterSine == FilterOf("sine", "filter_square")

FilterSquare == FilterOf("square", "filter_sawtooth")

FilterSawtooth == FilterOf("sawtooth", "snr")

ComputeSnr ==
    /\ pc = "snr"
    /\ LET noise_sine == Subtract(noisy.sine, clean.sine)
           noise_filtered_sine == Subtract(filtered.sine, clean.sine)
       IN  IF noise_sine.err # "none" THEN Abort(noise_sine.err) /\ UNCHANGED snr
           ELSE IF noise_filtered_sine.err # "none"
           THEN Abort(noise_filtered_sine.err) /\ UNCHANGED snr
           ELSE /\ snr' = [noisy |-> calculate_snr(clean.sine, noise_sine.ret),
                           filtered |-> calculate_snr(clean.sine, noise_filtered_sine.ret)]
                /\ pc' = "plot"
                /\ UNCHANGED err
    /\ UNCHANGED <<rng, stdout, call, ret, config, t, clean, noisy, drawn,
                   filtered, stats>>

\* ax.plot(t, y) raises ValueError when t and y differ in length
Plot ==
    /\ pc = "plot"
    /\ IF \E wave \in {"sine", "square", "sawtooth"} : Len(filtered[wave]) # Len(t)
       THEN Abort("ValueError")
       ELSE pc' = "report" /\ UNCHANGED err
    /\ UNCHANGED <<rng, stdout, call, ret, config, t, clean, noisy, drawn,
                   filtered, snr, stats>>

\* the results header, then the three statistics blocks
Report ==
    /\ pc = "report"
    /\ LET s1 == calculate_statistics(clean.sine)
           s2 == calculate_statistics(noisy.sine)
           s3 == calculate_statistics(filtered.sine)
       IN  IF s1.err # "none"
           THEN Abort(s1.err) /\ stdout' = stdout + 1 /\ UNCHANGED stats
           ELSE IF s2.err # "none"
           THEN Abort(s2.err) /\ stdout' = stdout + 1 + s1.printed /\ UNCHANGED stats
           ELSE IF s3.err # "none"
           THEN /\ Abort(s3.err)
                /\ stdout' = stdout + 1 + s1.printed + s2.printed
                /\ UNCHANGED stats
           ELSE /\ stats' = [clean |-> s1.ret, noisy |-> s2.ret, filtered |-> s3.ret]
                /\ stdout' = stdout + 1 + s1.printed + s2.printed + s3.printed
                /\ pc' = "done"
                /\ UNCHANGED err
    /\ UNCHANGED <<rng, call, ret, config, t, clean, noisy, drawn, filtered, snr>>

Next ==
    \/ MakeTimeSeries
    \/ GenerateClean
    \/ AddNoiseSine
    \/ AddNoiseSquare
    \/ AddNoiseSawtooth
    \/ FilterSine
    \/ FilterSquare
    \/ FilterSawtooth
    \/ ComputeSnr
    \/ Plot
    \/ Report

Spec == InitMain /\ [][Next]_vars

(***************************************************************************)
(* The claims.                                                             *)
(***************************************************************************)
TimeSeriesBuilt == pc \notin {"start", "imported"}

AfterNoise == pc \in {"filter_sine", "filter_square", "filter_sawtooth", "snr",
                      "plot", "report", "done"}

Waves == {"sine", "square", "sawtooth"}

\* the sum of the samples of signal at the indices (from 1) lo..hi that lie
\* inside the array, and the number of such indices
SumInside(signal, lo, hi) ==
    SumSeq([j \in 1..Len(signal) |->
              IF lo <= j /\ j <= hi THEN signal[j] ELSE Int2R(0)])

CountInside(signal, lo, hi) == Cardinality({j \in 1..Len(signal) : lo <= j /\ j <= hi})

FilterCallInRange ==
    /\ call.fn = "apply_filter"
    /\ call.window_size >= 1
    /\ call.window_size <= Len(call.signal)

\* C1: for duration > 0 and sample_rate > 0 the time series has
\* floor(duration * sample_rate) samples, starts at 0, is evenly spaced, and
\* every sample t satisfies 0 <= t < duration.
C1_TimeSeriesHalfOpen ==
    TimeSeriesBuilt =>
        LET N == RFloor(RMul(config.duration, config.sample_rate))
        IN  /\ Len(t) = N
            /\ N >= 1 => t[1] = Int2R(0)
            /\ \A i \in 1..(N - 2) : RSub(t[i + 1], t[i]) = RSub(t[i + 2], t[i + 1])
            /\ \A i \in 1..N : RLe(Int2R(0), t[i]) /\ RLt(t[i], config.duration)

\* C2: for a non-empty signal and a window >= 1, also one longer than the
\* signal, apply_filter returns a signal as long as its input.
C2_FilterKeepsLength ==
    (call.fn = "apply_filter" /\ Len(call.signal) >= 1 /\ call.window_size >= 1)
        => err = "none" /\ Len(ret) = Len(call.signal)

\* C3, as stated: for 1 <= w <= N, output[i] is the mean of the input samples
\* at the indices i - w/2 .. i + w/2 inside the array, the sum divided by the
\* number of samples available.
C3_ClippedMean ==
    FilterCallInRange =>
        /\ err = "none"
        /\ \A i \in 1..Len(call.signal) :
              LET h == call.window_size \div 2
              IN  ret[i] = RDiv(SumInside(call.signal, i - h, i + h),
                                Int2R(CountInside(call.signal, i - h, i + h)))

\* C3, amended: for 1 <= w <= N, output[i] is the sum of the input samples at
\* the indices i - w/2 .. i + (w-1)/2 inside the array, divided by w: samples
\* outside the array count as zero and the divisor is always w.
C3_ZeroPaddedAverage ==
    FilterCallInRange =>
        /\ err = "none"
        /\ Len(ret) = Len(call.signal)
        /\ \A i \in 1..Len(call.signal) :
              LET w == call.window_size
              IN  ret[i] = RDiv(SumInside(call.signal, i - (w \div 2), i + ((w - 1) \div 2)),
                                Int2R(w))

\* an even window inside a longer signal, whose first output is not the mean
\* of the samples available there
C3_Witness ==
    /\ FilterCallInRange
    /\ err = "none"
    /\ call.window_size = 2
    /\ Len(call.signal) = 3
    /\ ret[1] # RDiv(SumInside(call.signal, 0, 2), Int2R(2))
    /\ ret[2] # RDiv(SumInside(call.signal, 1, 3), Int2R(3))

\* the generator state a reference invocation starts from
ReferenceRng == [pos |-> 0, has_gauss |-> FALSE, gauss |-> 0]

\* C4: add_noise with noise_level >= 0 returns the same result for the same
\* (signal, noise_level, seed) whatever ran before it: every invocation
\* returns what a reference invocation with these arguments returns.
C4_AddNoiseDeterministic ==
    (call.fn = "add_noise" /\ RLe(Int2R(0), call.noise_level)) =>
        LET r == add_noise(ReferenceRng, call.signal, call.noise_level, call.seed)
        IN  err = r.err /\ ret = r.ret

\* add_noise called with noise while the generator held a cached deviate
\* left by an earlier draw, away from the reference state
C4_Witness ==
    /\ call.fn = "add_noise"
    /\ RLt(Int2R(0), call.noise_level)
    /\ Len(call.signal) = MaxNoiseLen
    /\ call.before.rng.has_gauss
    /\ call.before.rng.gauss # 0
    /\ call.before.rng # ReferenceRng
    /\ err = "none"
    /\ ret # call.signal

\* C5: add_noise with a negative noise_level and apply_filter with a negative
\* window fail, and fail before any effect: nothing is returned and no state,
\* the generator's included, has changed.
C5_RejectsBeforeAnyEffect ==
    /\ (call.fn = "add_noise" /\ RLt(call.noise_level, Int2R(0))) =>
           err # "none" /\ ret = None /\ rng = call.before.rng
    /\ (call.fn = "apply_filter" /\ call.window_size < 0) =>
           err # "none" /\ ret = None /\ rng = call.before.rng

C7_InfinityIffZeroNoisePower ==
    (call.fn = "calculate_snr" /\ Len(call.signal) = Len(call.noise)) =>
        LET signal_power == Mean(Squares(call.signal))
            noise_power == Mean(Squares(call.noise))
        IN  /\ err = "none"
            /\ noise_power = Int2R(0) => ret = Infinity
            /\ noise_power # Int2R(0) => ret = TenLog10(RDiv(signal_power, noise_power))

\* C7, amended: calculate_snr never fails on equal-length sequences; it
\* returns 10*log10(signal_power / noise_power) when the noise power is
\* greater than zero (-infinity for an all-zero reference) and +infinity
\* otherwise: when the noise power is zero, and when it is NaN, as it is for
\* two empty sequences.
C7_InfinityUnlessPositiveNoisePower ==
    (call.fn = "calculate_snr" /\ Len(call.signal) = Len(call.noise)) =>
        LET signal_power == Mean(Squares(call.signal))
            noise_power == Mean(Squares(call.noise))
        IN  /\ err = "none"
            /\ (~IsNaN(noise_power) /\ RLt(Int2R(0), noise_power)) =>
                  /\ ret = TenLog10(RDiv(signal_power, noise_power))
                  /\ signal_power = Int2R(0) => ret.kind = "-inf"
            /\ (IsNaN(noise_power) \/ noise_power = Int2R(0)) => ret = Infinity

\* two empty sequences: the noise power is NaN and the result +infinity
C7_Witness ==
    /\ call.fn = "calculate_snr"
    /\ Len(call.signal) = 0
    /\ Len(call.noise) = 0
    /\ IsNaN(Mean(Squares(call.noise)))
    /\ ret = Infinity

StageNames == {"generate_sine_wave", "generate_square_wave", "generate_sawtooth_wave",
               "add_noise", "apply_filter", "calculate_snr", "calculate_statistics"}

\* C10: a stage call has no effect other than its result: after a call that
\* returned, the configuration, the generator state and the output stream
\* are what they were before it.
C10_StagesHaveNoSideEffects ==
    (call.fn \in StageNames /\ err = "none") =>
        /\ config = call.before.config
        /\ rng = call.before.rng
        /\ stdout = call.before.stdout

=============================================================================
